---- MODULE Spec2Model ----
(***************************************************************************)
(* DRTP (application.py): three-way handshake, Go-Back-N transfer and      *)
(* FIN teardown between one client process and one server process over     *)
(* UDP.  Datagrams are modelled as the byte sequences the code puts on     *)
(* the wire; the two directions of the network are the sequences c2s and   *)
(* s2c.                                                                    *)
(***************************************************************************)
EXTENDS Integers, Sequences, FiniteSets, TLC

\* ------------------------------------------------------------------ bounds
\* longest file (in bytes) the client is given
MaxLen == 6
\* largest window the user asks for with -w, besides one above the
\* server's advertised window
MaxWin == 3
\* datagrams one direction of the lossy network holds; a datagram sent into
\* a full direction is lost (UDP buffer overflow)
MaxChan == 3
\* datagrams the network may lose in a session of the fair-loss network
MaxLoss == 1
\* stray datagrams that reach the sockets in a session of the open network
MaxStray == 1

\* ------------------------------------------------------- program constants
syn_flag == 4
ack_flag == 2
fin_flag == 8
header_size == 8
\* max_data is 992 in the source; the model scales the payload unit down so
\* that files of a few bytes span several chunks
max_data == 2
\* window the server advertises in its SYN-ACK
advertised_window == 15

\* ------------------------------------------------------------------ codec
Min(a, b) == IF a < b THEN a ELSE b

\* flags & bit, for a bit that is a power of two
HasFlag(flags, bit) == (flags \div bit) % 2 = 1

\* one "H" field of struct.pack("!HHHH", ...): two bytes, big-endian
pack_H_little_endian(v) == <<v % 256, v \div 256>>
pack_H(v) == <<v \div 256, v % 256>>

\* struct.pack raises struct.error for a field outside 0..65535
pack_ok_always(seq_num, ack_num, flags, recv_window) == TRUE
pack_ok(seq_num, ack_num, flags, recv_window) ==
    /\ seq_num \in 0..65535
    /\ ack_num \in 0..65535
    /\ flags \in 0..65535
    /\ recv_window \in 0..65535

create_header(seq_num, ack_num, flags, recv_window) ==
    pack_H(seq_num) \o pack_H(ack_num) \o pack_H(flags) \o pack_H(recv_window)

\* struct.unpack("!HHHH", b) raises struct.error unless len(b) = 8
parse_ok(header_bytes) == Len(header_bytes) = header_size

parse_header(header_bytes) ==
    [seq    |-> header_bytes[1] * 256 + header_bytes[2],
     ack    |-> header_bytes[3] * 256 + header_bytes[4],
     flags  |-> header_bytes[5] * 256 + header_bytes[6],
     window |-> header_bytes[7] * 256 + header_bytes[8]]

create_packet(seq_num, ack_num, flags, recv_window, data) ==
    create_header(seq_num, ack_num, flags, recv_window) \o data

\* packet[:header_size] and packet[header_size:]
packet_header(packet) == SubSeq(packet, 1, Min(Len(packet), header_size))
packet_data(packet) == SubSeq(packet, header_size + 1, Len(packet))

\* extract_packet raises exactly when parse_header does
extract_ok(packet) == parse_ok(packet_header(packet))
extract_packet(packet) ==
    [header |-> parse_header(packet_header(packet)), data |-> packet_data(packet)]

\* ------------------------------------------------------------------ state
VARIABLES
    file_data,      \* client: bytes of the file to send
    sender_window,  \* client: args.window
    c_pc,           \* client: position in main / client_* functions
    window_size,    \* client: actual_window returned by client_handshake
    base,           \* client_send_file
    next_seq,       \* client_send_file
    c_timestamp,    \* client_send_file: local `timestamp` is bound
    s_pc,           \* server: position in main / server_* functions
    addr,           \* server: client_addr returned by server_handshake
    discard_seq,    \* server: args.discard (0 stands for None)
    discard_once,   \* server_receive_files
    expected_seq,   \* server_receive_files
    total_received, \* server_receive_files
    sink,           \* server: bytes written to the output file
    s_timestamp,    \* server_receive_files: local `timestamp` is bound
    c2s,            \* network: datagrams towards the server's socket
    s2c,            \* network: datagrams towards the client's socket
    cap,            \* network: datagrams one direction holds
    net,            \* network: data packets lost in all (lost) and since
                    \* the last retransmission round (round) by the
                    \* fair-loss network; stray datagrams delivered (strays)
    ev,             \* history: the step just taken
    acks,           \* history: ack numbers of the data ACKs the server sent
    codec,          \* a call of create_packet and of extract_packet on
                    \* its result, outside a session
    sent            \* history: SYNs, handshake ACKs and FINs the client sent,
                    \* its waits for the FIN-ACK, and in traced sessions the
                    \* sequence numbers of the data packets it sent

vars == <<file_data, sender_window, c_pc, window_size, base, next_seq,
          c_timestamp, s_pc, addr, discard_seq, discard_once, expected_seq,
          total_received, sink, s_timestamp, c2s, s2c, cap, net, ev, acks,
          codec, sent>>

cvars == <<c_pc, window_size, base, next_seq, c_timestamp>>
svars == <<s_pc, addr, discard_once, expected_seq, total_received, sink,
           s_timestamp, acks>>
\* what no step of a session changes
params == <<file_data, sender_window, discard_seq, cap, codec>>

\* -------------------------------------------------- client_send_file setup
\* total_chunks = (len(file_data) + max_data - 1) // max_data
total_chunks == (Len(file_data) + max_data - 1) \div max_data

\* file_data[i*max_data : (i+1)*max_data]
chunk_shifted(i) == SubSeq(file_data, i * max_data + 2, Min((i + 1) * max_data, Len(file_data)))
chunk(i) == SubSeq(file_data, i * max_data + 1, Min((i + 1) * max_data, Len(file_data)))

\* packets[k] for the 0-based list index k, i.e. the packet with seq k+1
packets(k) == create_packet(k + 1, 0, 0, 0, chunk(k))

\* the file with bytes 1, 2, ..., n: all bytes differ, so any loss,
\* duplication or reordering of payload shows in the sink
FileOfLen(n) == [i \in 1..n |-> i % 256]

\* ---------------------------------------------------------------- network
\* sock.sendto: the datagram joins the direction unless its buffer is full
Send(chan, d) == IF Len(chan) < cap THEN Append(chan, d) ELSE chan

RECURSIVE SendAll(_, _)
SendAll(chan, ds) ==
    IF ds = <<>> THEN chan ELSE SendAll(Send(chan, Head(ds)), Tail(ds))

\* the direction without its i-th datagram
Remove(chan, i) == SubSeq(chan, 1, i - 1) \o SubSeq(chan, i + 1, Len(chan))

\* a datagram of the client as the server's recvfrom returns it
FromClient(packet) == [src |-> "client", data |-> packet]

\* sock.sendto(packet, dest) on the server's socket
ServerSendTo(dest, packet) == IF dest = "client" THEN Send(s2c, packet) ELSE s2c

Event(who, op, pkt, out) == [who |-> who, op |-> op, pkt |-> pkt, out |-> out]

\* header fields of the datagrams of a batch
RECURSIVE SeqsOf(_)
SeqsOf(ds) ==
    IF ds = <<>> THEN <<>>
    ELSE <<extract_packet(Head(ds)).header.seq>> \o SeqsOf(Tail(ds))

\* the client's data log, kept only in traced sessions
Logged(ds) == IF sent.trace THEN [sent EXCEPT !.data = @ \o SeqsOf(ds)] ELSE sent

\* no datagram is in flight in either direction
Quiet == c2s = <<>> /\ s2c = <<>>

\* ------------------------------------------------------------------- Init
Windows == (0..MaxWin) \cup {advertised_window + 1}
MaxChunks == (MaxLen + max_data - 1) \div max_data

\* roomy: the network has room for more than a session without early
\* timeouts has in flight (the handshake ACK and one copy of each chunk)
InitWith(lens, wins, discards, trace, roomy) ==
    /\ file_data \in {FileOfLen(n) : n \in lens}
    /\ sender_window \in wins
    /\ discard_seq \in discards
    /\ c_pc = "start"
    /\ window_size = 0
    /\ base = 1
    /\ next_seq = 1
    /\ c_timestamp = FALSE
    /\ s_pc = "handshake"
    /\ addr = "none"
    /\ discard_once = FALSE
    /\ expected_seq = 1
    /\ total_received = 0
    /\ sink = <<>>
    /\ s_timestamp = FALSE
    /\ c2s = <<>>
    /\ s2c = <<>>
    /\ cap = IF roomy THEN total_chunks + 2 ELSE MaxChan
    /\ net = [lost |-> 0, round |-> 0, strays |-> 0]
    /\ ev = Event("init", "init", <<>>, <<>>)
    /\ acks = <<>>
    /\ codec = [op |-> "idle", args |-> <<>>, packet |-> <<>>, result |-> <<>>]
    /\ sent = [syn |-> 0, ack |-> 0, fin |-> 0, finwait |-> 0, trace |-> trace,
               data |-> <<>>]

Init == InitWith(0..MaxLen, Windows, 0..MaxChunks, FALSE, FALSE)

\* ----------------------------------------------------- client_handshake
\* lines 138-145: send SYN(seq=1), then wait
ClientSendSyn ==
    /\ c_pc = "start"
    /\ LET syn_packet == create_packet(1, 0, syn_flag, 0, <<>>) IN
        /\ c2s' = Send(c2s, FromClient(syn_packet))
        /\ ev' = Event("client", "syn", <<>>, <<syn_packet>>)
    /\ c_pc' = "syn_wait"
    /\ sent' = [sent EXCEPT !.syn = @ + 1]
    /\ UNCHANGED <<window_size, base, next_seq, c_timestamp, s2c, net>>
    /\ UNCHANGED <<svars, params>>

\* line 166: the window the handshake returns
negotiated_requested(requested, recv_window) == requested
negotiated(requested, recv_window) == Min(requested, recv_window)

\* line 150: the reply carries both SYN and ACK
is_synack(flags) == HasFlag(flags, syn_flag) /\ HasFlag(flags, ack_flag)

\* lines 146-166: the reply to the SYN arrives
ClientRecvSynAck(i) ==
    /\ c_pc = "syn_wait"
    /\ i \in 1..Len(s2c)
    /\ LET data == s2c[i]
           h == extract_packet(data).header
           ack_packet == create_packet(2, h.seq + 1, ack_flag, 0, <<>>)
       IN
        /\ s2c' = Remove(s2c, i)
        /\ IF /\ extract_ok(data)
              /\ is_synack(h.flags)
              /\ pack_ok(2, h.seq + 1, ack_flag, 0)
           THEN /\ c2s' = Send(c2s, FromClient(ack_packet))
                /\ window_size' = negotiated(sender_window, h.window)
                /\ c_pc' = "send"
                /\ ev' = Event("client", "synack", data, <<ack_packet>>)
                /\ sent' = [sent EXCEPT !.ack = @ + 1]
           ELSE \* struct.error or "Expected SYN-ACK, wrong": not caught
                /\ c_pc' = "crashed"
                /\ ev' = Event("client", "raise", data, <<>>)
                /\ UNCHANGED <<c2s, window_size, sent>>
    /\ UNCHANGED <<base, next_seq, c_timestamp, net>>
    /\ UNCHANGED <<svars, params>>

\* lines 155-157 and 439-441: socket.timeout, return None, main returns
ClientSynTimeoutRetry ==
    /\ c_pc = "syn_wait"
    /\ c_pc' = "start"
    /\ ev' = Event("client", "timeout", <<>>, <<>>)
    /\ UNCHANGED <<window_size, base, next_seq, c_timestamp, c2s, s2c, net, sent>>
    /\ UNCHANGED <<svars, params>>
ClientSynTimeout ==
    /\ c_pc = "syn_wait"
    /\ c_pc' = "failed"
    /\ ev' = Event("client", "timeout", <<>>, <<>>)
    /\ UNCHANGED <<window_size, base, next_seq, c_timestamp, c2s, s2c, net, sent>>
    /\ UNCHANGED <<svars, params>>

\* ----------------------------------------------------- client_send_file
\* value of next_seq when the inner while loop of lines 217-221 ends
AfterSendPhaseInclusive(b, n) ==
    IF n <= b + window_size /\ n <= total_chunks
    THEN Min(b + window_size + 1, total_chunks + 1)
    ELSE n
AfterSendPhase(b, n) ==
    IF n < b + window_size /\ n <= total_chunks
    THEN Min(b + window_size, total_chunks + 1)
    ELSE n

\* packets[lo-1], ..., packets[hi-2]: the packets with seq in [lo, hi)
BatchFirstOnly(lo, hi) == [k \in 1..(IF hi > lo THEN 1 ELSE 0) |-> packets(lo + k - 2)]
Batch(lo, hi) == [k \in 1..(IF hi > lo THEN hi - lo ELSE 0) |-> packets(lo + k - 2)]

\* line 215: the loop condition
in_loop_before_last(b) == b < total_chunks
in_loop(b) == b <= total_chunks

\* line 215: the loop condition fails
ClientLoopExit ==
    /\ c_pc = "send"
    /\ ~in_loop(base)
    /\ c_pc' = "teardown"
    /\ ev' = Event("client", "exit", <<>>, <<>>)
    /\ UNCHANGED <<window_size, base, next_seq, c_timestamp, c2s, s2c, net, sent>>
    /\ UNCHANGED <<svars, params>>

\* lines 215-221: send everything that is inside the window
ClientSendPhase ==
    /\ c_pc = "send"
    /\ in_loop(base)
    /\ LET out == Batch(next_seq, AfterSendPhase(base, next_seq)) IN
        /\ c2s' = SendAll(c2s, [k \in 1..Len(out) |-> FromClient(out[k])])
        /\ ev' = Event("client", "send", <<>>, out)
        /\ c_timestamp' = (c_timestamp \/ out # <<>>)
        /\ sent' = Logged(out)
    /\ next_seq' = AfterSendPhase(base, next_seq)
    /\ c_pc' = "wait"
    /\ UNCHANGED <<window_size, base, s2c, net>>
    /\ UNCHANGED <<svars, params>>

\* lines 226-229: base after a packet with these flags and ack number
acked_base_single(b, flags, ack) ==
    IF HasFlag(flags, ack_flag) /\ ack = b THEN ack + 1 ELSE b
acked_base(b, flags, ack) ==
    IF HasFlag(flags, ack_flag) /\ ack >= b THEN ack + 1 ELSE b

\* lines 223-229: a datagram arrives while waiting for an ACK
ClientRecvAck(i) ==
    /\ c_pc = "wait"
    /\ i \in 1..Len(s2c)
    /\ LET data == s2c[i]
           h == extract_packet(data).header
       IN
        /\ s2c' = Remove(s2c, i)
        /\ IF ~extract_ok(data) \/ (HasFlag(h.flags, ack_flag) /\ ~c_timestamp)
           THEN \* struct.error, or UnboundLocalError at line 227: not caught
                /\ c_pc' = "crashed"
                /\ base' = base
                /\ ev' = Event("client", "raise", data, <<>>)
           ELSE /\ c_pc' = "send"
                /\ base' = acked_base(base, h.flags, h.ack)
                /\ ev' = Event("client", "ack", data, <<>>)
    /\ UNCHANGED <<window_size, next_seq, c_timestamp, c2s, net, sent>>
    /\ UNCHANGED <<svars, params>>

\* lines 231-236: socket.timeout, resend the whole window
ClientRTO ==
    /\ c_pc = "wait"
    /\ IF ~c_timestamp
       THEN \* UnboundLocalError at line 232, raised inside the handler
            /\ c_pc' = "crashed"
            /\ ev' = Event("client", "raise", <<>>, <<>>)
            /\ UNCHANGED <<c2s, sent, net>>
       ELSE LET out == Batch(base, next_seq) IN
            /\ c_pc' = "send"
            /\ net' = [net EXCEPT !.round = 0]
            /\ c2s' = SendAll(c2s, [k \in 1..Len(out) |-> FromClient(out[k])])
            /\ ev' = Event("client", "rto", <<>>, out)
            /\ sent' = Logged(out)
    /\ UNCHANGED <<window_size, base, next_seq, c_timestamp, s2c>>
    /\ UNCHANGED <<svars, params>>

\* ------------------------------------------------------- client_teardown
\* lines 264-267: send FIN
ClientSendFin ==
    /\ c_pc = "teardown"
    /\ LET fin_packet == create_packet(0, 0, fin_flag, 0, <<>>) IN
        /\ c2s' = Send(c2s, FromClient(fin_packet))
        /\ ev' = Event("client", "fin", <<>>, <<fin_packet>>)
    /\ c_pc' = "fin_wait"
    /\ sent' = [sent EXCEPT !.fin = @ + 1]
    /\ UNCHANGED <<window_size, base, next_seq, c_timestamp, s2c, net>>
    /\ UNCHANGED <<svars, params>>

\* lines 269-274: a datagram arrives while waiting for the FIN-ACK
ClientFinRecv(i) ==
    /\ c_pc = "fin_wait"
    /\ i \in 1..Len(s2c)
    /\ LET data == s2c[i] IN
        /\ s2c' = Remove(s2c, i)
        /\ c_pc' = IF extract_ok(data) THEN "closed" ELSE "crashed"
        /\ ev' = Event("client", IF extract_ok(data) THEN "finreply" ELSE "raise", data, <<>>)
    /\ sent' = [sent EXCEPT !.finwait = @ + 1]
    /\ UNCHANGED <<window_size, base, next_seq, c_timestamp, c2s, net>>
    /\ UNCHANGED <<svars, params>>

\* lines 276-277: socket.timeout, the function returns all the same
ClientFinTimeoutResend ==
    /\ c_pc = "fin_wait"
    /\ c_pc' = "teardown"
    /\ ev' = Event("client", "timeout", <<>>, <<>>)
    /\ sent' = [sent EXCEPT !.finwait = @ + 1]
    /\ UNCHANGED <<window_size, base, next_seq, c_timestamp, c2s, s2c, net>>
    /\ UNCHANGED <<svars, params>>
ClientFinTimeout ==
    /\ c_pc = "fin_wait"
    /\ c_pc' = "closed"
    /\ ev' = Event("client", "timeout", <<>>, <<>>)
    /\ sent' = [sent EXCEPT !.finwait = @ + 1]
    /\ UNCHANGED <<window_size, base, next_seq, c_timestamp, c2s, s2c, net>>
    /\ UNCHANGED <<svars, params>>

\* ------------------------------------------------------ server_handshake
\* lines 299-313: one iteration of the listening loop; on the ACK the
\* function returns and lines 341-344 of server_receive_files run
ServerHandshakeRecv(i) ==
    /\ s_pc = "handshake"
    /\ i \in 1..Len(c2s)
    /\ LET d == c2s[i]
           h == extract_packet(d.data).header
           synack == create_packet(0, h.seq + 1, syn_flag + ack_flag, advertised_window, <<>>)
       IN
        /\ c2s' = Remove(c2s, i)
        /\ IF ~extract_ok(d.data)
              \/ (HasFlag(h.flags, syn_flag)
                  /\ ~pack_ok(0, h.seq + 1, syn_flag + ack_flag, advertised_window))
           THEN \* struct.error: not caught
                /\ s_pc' = "crashed"
                /\ ev' = Event("server", "raise", d.data, <<>>)
                /\ UNCHANGED <<s2c, addr, discard_once>>
           ELSE IF HasFlag(h.flags, syn_flag)
           THEN /\ s2c' = ServerSendTo(d.src, synack)
                /\ ev' = Event("server", "syn", d.data, <<synack>>)
                /\ UNCHANGED <<s_pc, addr, discard_once>>
           ELSE IF HasFlag(h.flags, ack_flag)
           THEN /\ s_pc' = "receive"
                /\ addr' = d.src
                /\ discard_once' = (discard_seq # 0)
                /\ ev' = Event("server", "established", d.data, <<>>)
                /\ UNCHANGED s2c
           ELSE /\ ev' = Event("server", "ignore", d.data, <<>>)
                /\ UNCHANGED <<s2c, s_pc, addr, discard_once>>
    /\ UNCHANGED <<expected_seq, total_received, sink, s_timestamp, acks, net, sent>>
    /\ UNCHANGED <<cvars, params>>

\* --------------------------------------------------- server_receive_files
\* line 355: the packet carries FIN
is_fin_wrong_bit(flags) == HasFlag(flags, syn_flag)
is_fin(flags) == HasFlag(flags, fin_flag)

\* line 362: the packet is the one to discard once
discards(seq) == discard_seq # 0 /\ seq = discard_seq /\ discard_once

\* line 370: the acknowledgement number sent for the packet written
ack_number_next(seq) == seq + 1
ack_number(seq) == seq

\* line 366: the packet is the expected one
in_order_or_later(seq) == seq >= expected_seq
in_order(seq) == seq = expected_seq

\* lines 349-382: one iteration of the receive loop
ServerRecv(i) ==
    /\ s_pc = "receive"
    /\ i \in 1..Len(c2s)
    /\ LET d == c2s[i]
           h == extract_packet(d.data).header
           payload == extract_packet(d.data).data
           fin_ack == create_packet(0, 0, fin_flag + ack_flag, 0, <<>>)
           ack_packet == create_packet(0, ack_number(h.seq), ack_flag, 0, <<>>)
       IN
        /\ c2s' = Remove(c2s, i)
        /\ IF ~extract_ok(d.data)
           THEN \* struct.error, caught at line 380: break
                /\ s_pc' = "done"
                /\ ev' = Event("server", "error", d.data, <<>>)
                /\ UNCHANGED <<s2c, discard_once, expected_seq, total_received,
                               sink, s_timestamp, acks>>
           ELSE IF is_fin(h.flags)
           THEN /\ s2c' = ServerSendTo(addr, fin_ack)
                /\ s_pc' = "done"
                /\ ev' = Event("server", "fin", d.data, <<fin_ack>>)
                /\ UNCHANGED <<discard_once, expected_seq, total_received,
                               sink, s_timestamp, acks>>
           ELSE IF discards(h.seq)
           THEN /\ discard_once' = FALSE
                /\ ev' = Event("server", "discard", d.data, <<>>)
                /\ UNCHANGED <<s2c, s_pc, expected_seq, total_received,
                               sink, s_timestamp, acks>>
           ELSE IF in_order(h.seq)
           THEN /\ s_timestamp' = TRUE
                /\ sink' = sink \o payload
                /\ s2c' = ServerSendTo(addr, ack_packet)
                /\ expected_seq' = expected_seq + 1
                /\ total_received' = total_received + Len(payload)
                /\ acks' = Append(acks, ack_number(h.seq))
                /\ ev' = Event("server", "accept", d.data, <<ack_packet>>)
                /\ UNCHANGED <<s_pc, discard_once>>
           ELSE IF s_timestamp
           THEN /\ ev' = Event("server", "outoforder", d.data, <<>>)
                /\ UNCHANGED <<s2c, s_pc, discard_once, expected_seq,
                               total_received, sink, s_timestamp, acks>>
           ELSE \* UnboundLocalError at line 378, caught at line 380: break
                /\ s_pc' = "done"
                /\ ev' = Event("server", "error", d.data, <<>>)
                /\ UNCHANGED <<s2c, discard_once, expected_seq, total_received,
                               sink, s_timestamp, acks>>
    /\ UNCHANGED <<addr, net, sent>>
    /\ UNCHANGED <<cvars, params>>

\* ---------------------------------------------------------------- network
ClientGone == c_pc \in {"failed", "crashed", "closed"}
ServerGone == s_pc \in {"crashed", "done"}

\* a datagram reaches a socket whose process has ended
ClosedDrop ==
    /\ \/ ServerGone /\ c2s # <<>> /\ c2s' = Tail(c2s) /\ UNCHANGED s2c
       \/ ClientGone /\ s2c # <<>> /\ s2c' = Tail(s2c) /\ UNCHANGED c2s
    /\ ev' = Event("net", "closed", <<>>, <<>>)
    /\ UNCHANGED <<cvars, svars, params, net, sent>>

\* the network loses a datagram
Lose ==
    /\ \/ \E i \in 1..Len(c2s) : c2s' = Remove(c2s, i) /\ UNCHANGED s2c
       \/ \E i \in 1..Len(s2c) : s2c' = Remove(s2c, i) /\ UNCHANGED c2s
    /\ ev' = Event("net", "lose", <<>>, <<>>)
    /\ UNCHANGED <<cvars, svars, params, net, sent>>

\* datagrams of other origin that may reach the two sockets: a datagram
\* shorter than a header, and a packet with no flag set
StraysToServer == {[src |-> "stranger", data |-> <<0, 0, 0>>]}
StraysToClient == {<<0, 0, 0>>, create_packet(0, 0, 0, 0, <<>>)}

\* one stray datagram reaches a socket
Stray ==
    /\ net.strays < MaxStray
    /\ \/ \E d \in StraysToServer : c2s' = Send(c2s, d) /\ UNCHANGED s2c
       \/ \E d \in StraysToClient : s2c' = Send(s2c, d) /\ UNCHANGED c2s
    /\ net' = [net EXCEPT !.strays = @ + 1]
    /\ ev' = Event("net", "stray", <<>>, <<>>)
    /\ UNCHANGED <<cvars, svars, params, sent>>

\* ------------------------------------------------------------------- Spec
\* the network loses and reorders datagrams; timers may expire early
Next ==
    \/ ClientSendSyn
    \/ \E i \in 1..Len(s2c) : ClientRecvSynAck(i)
    \/ ClientSynTimeout
    \/ ClientLoopExit
    \/ ClientSendPhase
    \/ \E i \in 1..Len(s2c) : ClientRecvAck(i)
    \/ ClientRTO
    \/ ClientSendFin
    \/ \E i \in 1..Len(s2c) : ClientFinRecv(i)
    \/ ClientFinTimeout
    \/ \E i \in 1..Len(c2s) : ServerHandshakeRecv(i)
    \/ \E i \in 1..Len(c2s) : ServerRecv(i)
    \/ ClosedDrop
    \/ Lose

Spec == Init /\ [][Next]_vars

\* the same network, which also delivers stray datagrams
NextOpen == Next \/ Stray

\* explored for the shorter files and windows, without fault injection
InitOpen == InitWith(0..(MaxLen - 1), 1..(MaxWin - 1), {0}, FALSE, FALSE)

SpecOpen == InitOpen /\ [][NextOpen]_vars

TypeOK ==
    /\ c_pc \in {"start", "syn_wait", "failed", "crashed", "send", "wait",
                 "teardown", "fin_wait", "closed"}
    /\ s_pc \in {"handshake", "receive", "done", "crashed"}
    /\ Len(c2s) <= cap /\ Len(s2c) <= cap

\* ------------------------------------------------------- timely networks
\* a timer of 400 ms expires only when nothing is in flight any more; the
\* network delivers in order and loses no SYN, SYN-ACK, FIN or FIN-ACK, so
\* the waits of the handshake and of the teardown always get their reply
\* (RepliesInTime) and only the retransmission timer expires
ClientRTOQuiet == Quiet /\ ClientRTO

\* the data packet (flags = 0) a datagram of c2s is, if any
IsData(packet) == extract_ok(packet) /\ extract_packet(packet).header.flags = 0

\* the fair-loss network loses a data packet: at most one per
\* retransmission round and MaxLoss in all
LoseData ==
    /\ net.lost < MaxLoss
    /\ net.round = 0
    /\ \E i \in 1..Len(c2s) : IsData(c2s[i].data) /\ c2s' = Remove(c2s, i)
    /\ net' = [net EXCEPT !.lost = @ + 1, !.round = 1]
    /\ ev' = Event("net", "lose", <<>>, <<>>)
    /\ UNCHANGED <<cvars, svars, params, s2c, sent>>

ClientStepTimely ==
    \/ ClientSendSyn
    \/ ClientRecvSynAck(1)
    \/ ClientLoopExit
    \/ ClientSendPhase
    \/ ClientRecvAck(1)
    \/ ClientRTOQuiet
    \/ ClientSendFin
    \/ ClientFinRecv(1)

ServerStepFifo ==
    \/ ServerHandshakeRecv(1)
    \/ ServerRecv(1)

\* FIFO network without loss
NextFifo ==
    \/ ClientStepTimely
    \/ ServerStepFifo

\* FIFO network that loses data packets only, finitely often
NextLive ==
    \/ ClientStepTimely
    \/ ServerStepFifo
    \/ ClosedDrop
    \/ LoseData

Fairness ==
    /\ WF_vars(ClientStepTimely)
    /\ WF_vars(ServerStepFifo)
    /\ WF_vars(ClosedDrop)

InitLive == InitWith(1..MaxLen, 1..MaxWin, 0..MaxChunks, FALSE, TRUE)

SpecLive == InitLive /\ [][NextLive]_vars /\ Fairness

\* the end-to-end scenario of the specification: window 3, four chunks
\* (the last one full or partial), discard_seq 2, traced
InitScenario ==
    InitWith({3 * max_data + 1, 4 * max_data}, {3}, {2}, TRUE, TRUE)

SpecScenario ==
    InitScenario /\ [][NextFifo]_vars
    /\ WF_vars(ClientStepTimely) /\ WF_vars(ServerStepFifo)

\* in the timely networks no datagram is lost to a full buffer
NoOverflow == Len(c2s) < cap /\ Len(s2c) < cap

\* in the timely networks a wait of the handshake or of the teardown never
\* finds the network empty
RepliesInTime == c_pc \in {"syn_wait", "fin_wait"} => ~Quiet

\* ================================================================ claims
Hdr(packet) == extract_packet(packet).header

\* the server handles datagram ev'.pkt in its receive loop in this step
ServerHandles == s_pc = "receive" /\ ev'.who = "server"

\* some datagram of the batch is an ACK
HasAck(out) == \E k \in 1..Len(out) : HasFlag(Hdr(out[k]).flags, ack_flag)

\* C1: in server_receive_files a data packet (no FIN) whose seq differs from
\* expected_seq is not written, is not answered and changes neither
\* expected_seq nor the byte count; an ACK is sent only for the packet with
\* seq = expected_seq and carries ack = seq, so no sequence number is
\* acknowledged twice.
C1_StrictOrdering ==
    /\ [][(/\ ServerHandles
           /\ extract_ok(ev'.pkt)
           /\ ~HasFlag(Hdr(ev'.pkt).flags, fin_flag)
           /\ Hdr(ev'.pkt).seq # expected_seq)
          => /\ sink' = sink
             /\ ev'.out = <<>>
             /\ s2c' = s2c
             /\ expected_seq' = expected_seq
             /\ total_received' = total_received]_vars
    /\ [][(/\ ServerHandles
           /\ HasAck(ev'.out)
           /\ ~HasFlag(Hdr(ev'.pkt).flags, fin_flag))
          => /\ Hdr(ev'.pkt).seq = expected_seq
             /\ ev'.out = <<create_packet(0, expected_seq, ack_flag, 0, <<>>)>>
             /\ acks' = Append(acks, expected_seq)]_vars
    /\ [](\A j, k \in 1..Len(acks) : acks[j] = acks[k] => j = k)

\* the server has just dropped a copy of a packet it acknowledged before
C1_Witness ==
    /\ ev.who = "server" /\ ev.op = "outoforder"
    /\ Hdr(ev.pkt).seq < expected_seq
    /\ s_pc = "receive"

\* the client handles datagram ev'.pkt while waiting for an ACK in this step
ClientHandlesAck ==
    c_pc = "wait" /\ ev'.who = "client" /\ ev'.pkt # <<>> /\ extract_ok(ev'.pkt)

\* C4: in client_send_file an ACK-flagged packet with ack number k >= base
\* sets base to k+1 in one step, whichever ACKs were received before; an
\* ACK-flagged packet with ack number < base and a packet without the ACK
\* flag leave base and next_seq unchanged; base never decreases.
C4_CumulativeAck ==
    /\ [][ClientHandlesAck =>
            LET h == Hdr(ev'.pkt) IN
            /\ (HasFlag(h.flags, ack_flag) /\ h.ack >= base) => base' = h.ack + 1
            /\ (~HasFlag(h.flags, ack_flag) \/ h.ack < base)
                   => (base' = base /\ next_seq' = next_seq)]_vars
    /\ [][base' >= base]_vars

\* the client has just taken ACK k >= 2 while an ACK with a smaller number,
\* which the server sent only once, is still on its way: base went past it
C4_Witness ==
    /\ ev.who = "client" /\ ev.op = "ack"
    /\ HasFlag(Hdr(ev.pkt).flags, ack_flag)
    /\ base = Hdr(ev.pkt).ack + 1
    /\ \E j \in 1..Len(s2c) :
           /\ extract_ok(s2c[j])
           /\ Hdr(s2c[j]).flags = ack_flag
           /\ Hdr(s2c[j]).ack < Hdr(ev.pkt).ack

\* C5: for a negotiated window >= 1, while the loop of client_send_file runs
\* with base <= N, base <= next_seq <= base + window_size; the send phase
\* transmits exactly the packets from next_seq on that are below
\* base + window_size and not above N.
C5_WindowInvariant ==
    /\ []((c_pc \in {"send", "wait"} /\ window_size >= 1 /\ base <= total_chunks)
            => (base <= next_seq /\ next_seq <= base + window_size))
    /\ [][(c_pc = "send" /\ c_pc' = "wait" /\ window_size >= 1) =>
            /\ ev'.out = Batch(next_seq, next_seq')
            /\ \A k \in 1..Len(ev'.out) :
                   LET q == Hdr(ev'.out[k]).seq IN
                   /\ q = next_seq + k - 1
                   /\ q < base + window_size
                   /\ q <= total_chunks
            /\ ~(next_seq' < base + window_size /\ next_seq' <= total_chunks)]_vars

\* the window has slid and is full again: window_size packets are
\* outstanding and the loop still runs
C5_Witness ==
    /\ c_pc = "wait"
    /\ window_size >= 1
    /\ base >= 2
    /\ base <= total_chunks
    /\ next_seq = base + window_size

\* the handshake ACK as it is on the wire against this server, whose
\* SYN-ACK has seq 0: seq=2, ack=1, flags=ACK, window=0
HandshakeAckBytes == <<0, 2, 0, 1, 0, 2, 0, 0>>

\* C7: on a reply with SYN and ACK set that advertises window W,
\* client_handshake sends ACK(seq=2, ack=peer_seq+1, flags=ACK, window=0)
\* and returns min(requested, W); the server advertises 15, so the window of
\* the transfer is min(requested, 15) and never changes afterwards.
C7_HandshakeSuccess ==
    /\ [][(/\ c_pc = "syn_wait" /\ ev'.who = "client" /\ ev'.pkt # <<>>
           /\ extract_ok(ev'.pkt)
           /\ HasFlag(Hdr(ev'.pkt).flags, syn_flag)
           /\ HasFlag(Hdr(ev'.pkt).flags, ack_flag))
          => /\ ev'.out = <<create_packet(2, Hdr(ev'.pkt).seq + 1, ack_flag, 0, <<>>)>>
             /\ ev'.out = <<HandshakeAckBytes>>
             /\ window_size' = Min(sender_window, Hdr(ev'.pkt).window)
             /\ c_pc' = "send"]_vars
    /\ [](c_pc \in {"send", "wait", "teardown", "fin_wait", "closed"}
            => window_size = Min(sender_window, 15))
    /\ [][c_pc \notin {"start", "syn_wait"} => window_size' = window_size]_vars

\* the user asked for more than the server advertises and the transfer runs
C7_Witness ==
    /\ c_pc = "wait"
    /\ sender_window > 15
    /\ window_size = 15
    /\ sent.ack = 1

\* C8: when the wait for the reply to the SYN times out, client_handshake
\* fails and the client does nothing more: no handshake ACK, no data packet,
\* no FIN, and no second SYN.
C8_HandshakeFailure ==
    /\ [][(c_pc = "syn_wait" /\ ev'.who = "client" /\ ev'.op = "timeout")
            => (c_pc' = "failed" /\ ev'.out = <<>>)]_vars
    /\ [][c_pc = "failed" =>
            (c_pc' = "failed" /\ ev'.who # "client" /\ UNCHANGED <<cvars, sent>>)]_vars
    /\ [](c_pc = "failed" =>
            /\ sent.syn = 1 /\ sent.ack = 0 /\ sent.fin = 0
            /\ next_seq = 1 /\ ~c_timestamp)
    /\ [](sent.syn <= 1)

\* the handshake has failed and the server's SYN-ACK arrives afterwards
C8_Witness ==
    /\ c_pc = "failed"
    /\ s2c # <<>>
    /\ ev.who = "server"

\* the FIN as it is on the wire: seq=0, ack=0, flags=FIN, window=0
FinBytes == <<0, 0, 0, 0, 0, 8, 0, 0>>

\* C10: client_teardown sends exactly one FIN(seq=0, ack=0, flags=FIN,
\* window=0), waits for at most one datagram and returns, whether the wait
\* ends with a FIN|ACK, with another packet or with a timeout; the FIN is
\* never sent again.
C10_Teardown ==
    /\ [][(c_pc = "teardown" /\ ev'.who = "client")
            => (c_pc' = "fin_wait" /\ ev'.out = <<FinBytes>>
                /\ ev'.out = <<create_packet(0, 0, fin_flag, 0, <<>>)>>)]_vars
    /\ [][(c_pc = "fin_wait" /\ ev'.who = "client")
            => (ev'.out = <<>> /\ c_pc' \in {"closed", "crashed"}
                /\ (extract_ok(ev'.pkt) \/ ev'.pkt = <<>> => c_pc' = "closed"))]_vars
    /\ [][c_pc = "closed" => (c_pc' = "closed" /\ ev'.who # "client")]_vars
    /\ [](sent.fin <= 1 /\ sent.finwait <= 1)
    /\ [](c_pc = "closed" => (sent.fin = 1 /\ sent.finwait = 1))

\* the wait of the teardown ended with a late data ACK and the client closed
C10_Witness ==
    /\ c_pc = "closed"
    /\ ev.who = "client" /\ ev.op = "finreply"
    /\ Hdr(ev.pkt).flags = ack_flag

\* all chunks are delivered and the sender knows it
Delivered ==
    /\ expected_seq = total_chunks + 1
    /\ sink = file_data
    /\ base > total_chunks

\* C2: with window >= 1 and N >= 1 chunks, over a network that loses at
\* most one data packet per round and only finitely many, the transfer
\* eventually delivers all N chunks (expected_seq = N+1) and the sender's
\* loop exits with base > N, whichever data packet is lost.
C2_Liveness ==
    (sender_window >= 1 /\ total_chunks >= 1 /\ discard_seq = 0)
        => <>(Delivered /\ c_pc = "teardown")

\* C6: with discard_seq = k in 1..N and window >= 1 the server drops the
\* first copy of packet k only, and the transfer still completes.
C6_DiscardOnce ==
    (discard_seq \in 1..total_chunks /\ sender_window >= 1)
        => ([](net.lost = 0) => <>(Delivered /\ ~discard_once /\ c_pc = "teardown"))

\* C9: in server_receive_files a datagram shorter than a header, and a
\* duplicate or out-of-order data packet (also before any packet has been
\* accepted), is dropped and the loop goes on with expected_seq and the sink
\* unchanged; only a FIN ends the loop.
C9_ErrorsSwallowed ==
    /\ [][(/\ ServerHandles
           /\ \/ ~extract_ok(ev'.pkt)
              \/ /\ ~HasFlag(Hdr(ev'.pkt).flags, fin_flag)
                 /\ Hdr(ev'.pkt).seq # expected_seq)
          => /\ s_pc' = "receive"
             /\ expected_seq' = expected_seq
             /\ sink' = sink]_vars
    /\ [][(s_pc = "receive" /\ s_pc' # "receive")
          => (extract_ok(ev'.pkt) /\ HasFlag(Hdr(ev'.pkt).flags, fin_flag))]_vars

\* the data packets of the scenario in the order the client sends them
ScenarioSent == <<1, 2, 3, 4, 2, 3, 4>>

\* the client has got the FIN-ACK
FinExchanged ==
    /\ sent.fin = 1
    /\ ev.who = "client" /\ ev.op = "finreply"
    /\ Hdr(ev.pkt).flags = fin_flag + ack_flag
    /\ s_pc = "done"

\* C3 as stated: window 3, four chunks, discard_seq 2, lossless FIFO network:
\* chunks 1,2,3 sent; ACK 1 received; a timeout, on which exactly chunks 2
\* and 3 are retransmitted; chunk 4 sent once; sink identical to the source;
\* FIN and FIN-ACK exchanged.
C3_AsStated ==
    /\ (ev.who = "client" /\ ev.op = "rto") => SeqsOf(ev.out) = <<2, 3>>
    /\ c_pc = "closed" =>
           /\ sent.data = <<1, 2, 3, 2, 3, 4>>
           /\ sink = file_data
           /\ FinExchanged

\* C3 as amended: chunks 1,2,3 are sent; the server accepts 1 and drops 2
\* once; on ACK 1 (base = 2) the window slides and chunk 4 is sent at once;
\* a timeout fires and the batch retransmitted is chunks 2, 3 and 4, so
\* chunk 4 is sent twice; the sink ends identical to the source and FIN and
\* FIN-ACK are exchanged.
C3_Scenario ==
    /\ [](/\ \E n \in 0..Len(ScenarioSent) : sent.data = SubSeq(ScenarioSent, 1, n)
          /\ (ev.who = "server" /\ ev.op = "discard")
                 => (Hdr(ev.pkt).seq = 2 /\ acks = <<1>> /\ ~discard_once)
          /\ (ev.who = "client" /\ ev.op = "rto")
                 => /\ SeqsOf(ev.out) = <<2, 3, 4>>
                    /\ sent.data = ScenarioSent
                    /\ base = 2
                    /\ acks = <<1>>
                    /\ sink = chunk(0)
                    /\ ~discard_once
          /\ c_pc = "closed"
                 => /\ sent.data = ScenarioSent
                    /\ sink = file_data
                    /\ acks = <<1, 2, 3, 4>>
                    /\ FinExchanged)
    /\ <>(c_pc = "closed")

\* the scenario has run to its end
C3_Witness ==
    /\ c_pc = "closed"
    /\ sent.data = ScenarioSent
    /\ sink = file_data
    /\ total_chunks = 4
    /\ FinExchanged

\* ------------------------------------------- foreign packets at the server
\* well-formed packets of another sender that may reach the server's
\* socket: a SYN, a SYN|ACK, an ACK, a packet without flags, a FIN, and a
\* SYN with the largest sequence number
ForeignPackets ==
    {create_packet(7, 0, syn_flag, 0, <<>>),
     create_packet(7, 0, syn_flag + ack_flag, 0, <<>>),
     create_packet(7, 0, ack_flag, 0, <<>>),
     create_packet(7, 0, 0, 0, <<>>),
     create_packet(0, 0, fin_flag, 0, <<>>),
     create_packet(65535, 0, syn_flag, 0, <<>>)}

\* one foreign packet reaches the server's socket
StrayAtServer ==
    /\ net.strays < MaxStray
    /\ \E p \in ForeignPackets : c2s' = Send(c2s, [src |-> "stranger", data |-> p])
    /\ net' = [net EXCEPT !.strays = @ + 1]
    /\ ev' = Event("net", "stray", <<>>, <<>>)
    /\ UNCHANGED <<cvars, svars, params, s2c, sent>>

NextServerOpen == Next \/ StrayAtServer

\* explored for files of at most two chunks
InitServerOpen ==
    InitWith(0..(max_data + 1), 1..(MaxWin - 1), 0..1, FALSE, FALSE)

SpecServerOpen == InitServerOpen /\ [][NextServerOpen]_vars

\* the FIN-ACK as it is on the wire: seq=0, ack=0, flags=FIN|ACK, window=0
FinAckBytes == <<0, 0, 0, 0, 0, 10, 0, 0>>

\* C11: whenever server_receive_files receives a packet with the FIN bit
\* set, whatever expected_seq is and whether or not a discard is pending, it
\* sends exactly one FIN|ACK(seq=0, ack=0, window=0) to the client address,
\* writes nothing and ends the receive loop; nothing is processed afterwards.
C11_ServerFin ==
    /\ [][(/\ ServerHandles
           /\ extract_ok(ev'.pkt)
           /\ HasFlag(Hdr(ev'.pkt).flags, fin_flag))
          => /\ ev'.out = <<FinAckBytes>>
             /\ ev'.out = <<create_packet(0, 0, fin_flag + ack_flag, 0, <<>>)>>
             /\ s2c' = ServerSendTo(addr, FinAckBytes)
             /\ s_pc' = "done"
             /\ UNCHANGED <<sink, expected_seq, total_received, discard_once, acks>>]_vars
    /\ [][s_pc = "done" => (ev'.who # "server" /\ UNCHANGED svars)]_vars

\* a FIN has ended the loop before all chunks were accepted, with the
\* discard still pending, and the FIN-ACK is on its way to the client
C11_Witness ==
    /\ s_pc = "done"
    /\ ev.who = "server" /\ ev.op = "fin"
    /\ expected_seq <= total_chunks
    /\ discard_once
    /\ addr = "client"
    /\ \E j \in 1..Len(s2c) : s2c[j] = FinAckBytes

\* ------------------------------------------------------------ codec calls
\* field values at the edges of the bytes and of the 16-bit range, and one
\* beyond it
FieldValues == {0, 255, 256, 65535, 65536}

\* payloads of every length up to max_data, with the extreme byte values
Payloads == {[i \in 1..n |-> IF i % 2 = 1 THEN 255 ELSE 0] : n \in 0..max_data}

\* create_packet(seq_num, ack_num, flags, recv_window, data) is called
CodecCreate ==
    /\ \E q, a, f, w \in FieldValues : \E data \in Payloads :
          codec' = IF pack_ok(q, a, f, w)
                   THEN [op |-> "created", args |-> <<q, a, f, w, data>>,
                         packet |-> create_packet(q, a, f, w, data),
                         result |-> <<>>]
                   ELSE \* struct.error
                        [op |-> "raised", args |-> <<q, a, f, w, data>>,
                         packet |-> <<>>, result |-> <<>>]
    /\ UNCHANGED <<cvars, svars, file_data, sender_window, discard_seq, cap,
                   c2s, s2c, net, ev, sent>>

\* extract_packet is called on the packet just created
CodecExtract ==
    /\ codec.op = "created"
    /\ codec' = IF extract_ok(codec.packet)
                THEN [codec EXCEPT !.op = "extracted",
                                   !.result = extract_packet(codec.packet)]
                ELSE [codec EXCEPT !.op = "raised"]
    /\ UNCHANGED <<cvars, svars, file_data, sender_window, discard_seq, cap,
                   c2s, s2c, net, ev, sent>>

NextCodec == CodecCreate \/ CodecExtract

InitCodec == InitWith({0}, {1}, {0}, FALSE, FALSE)

SpecCodec == InitCodec /\ [][NextCodec]_vars

InU16(v) == v \in 0..65535

\* C12: for seq, ack, flags, window in the unsigned 16-bit range and a
\* payload P of at most max_data bytes, extract_packet(create_packet(seq,
\* ack, flags, window, P)) = ((seq, ack, flags, window), P); the header is
\* the first 8 bytes, and a packet of exactly 8 bytes has an empty payload.
C12_RoundTrip ==
    /\ (codec.op = "raised" => \E k \in 1..4 : ~InU16(codec.args[k]))
    /\ (codec.op = "created" =>
           /\ Len(codec.packet) = header_size + Len(codec.args[5])
           /\ \A k \in 1..Len(codec.packet) : codec.packet[k] \in 0..255)
    /\ (codec.op = "extracted" =>
           /\ codec.result.header = [seq |-> codec.args[1], ack |-> codec.args[2],
                                     flags |-> codec.args[3], window |-> codec.args[4]]
           /\ codec.result.data = codec.args[5]
           /\ packet_header(codec.packet) = SubSeq(codec.packet, 1, 8)
           /\ codec.packet = packet_header(codec.packet) \o codec.result.data
           /\ (Len(codec.packet) = 8 => codec.result.data = <<>>))

\* a packet with fields on both sides of the byte boundary and a payload of
\* full length has made the round trip
C12_Witness ==
    /\ codec.op = "extracted"
    /\ codec.args[1] = 65535 /\ codec.args[2] = 256
    /\ codec.args[3] = 255 /\ codec.args[4] = 0
    /\ Len(codec.args[5]) = max_data

\* C13 as stated: create_header never fails, and every field, also one
\* that is 65536 or more, decodes to its value modulo 2^16.
C13_AsStated ==
    /\ codec.op # "raised"
    /\ (codec.op = "created" =>
           LET h == parse_header(packet_header(codec.packet)) IN
           /\ h.seq = codec.args[1] % 65536
           /\ h.ack = codec.args[2] % 65536
           /\ h.flags = codec.args[3] % 65536
           /\ h.window = codec.args[4] % 65536)

\* C13 as amended: create_header returns 8 bytes in which every field
\* decodes to its value when all four fields are in 0..65535, and raises
\* struct.error, without masking, as soon as one field is 65536 or more.
C13_RangeChecked ==
    /\ (codec.op = "raised" <=> (codec.args # <<>> /\ \E k \in 1..4 : ~InU16(codec.args[k])))
    /\ (codec.op = "created" =>
           LET h == parse_header(packet_header(codec.packet)) IN
           /\ \A k \in 1..4 : InU16(codec.args[k])
           /\ Len(packet_header(codec.packet)) = 8
           /\ h = [seq |-> codec.args[1], ack |-> codec.args[2],
                   flags |-> codec.args[3], window |-> codec.args[4]])

\* the call with ack number 65536 has raised
C13_Witness ==
    /\ codec.op = "raised"
    /\ codec.args[2] = 65536
    /\ \A k \in {1, 3, 4} : InU16(codec.args[k])

\* the ACK wait of client_send_file ends with socket.timeout
ClientTimesOut == c_pc = "wait" /\ ev'.who = "client" /\ ev'.pkt = <<>>

\* the packets numbered lo..(hi - 1), each once, in ascending order
Outstanding(lo, hi) ==
    [k \in 1..(hi - lo) |-> create_packet(lo + k - 1, 0, 0, 0, chunk(lo + k - 2))]

\* C14: when the ACK wait of client_send_file times out, the sender
\* retransmits exactly the packets numbered base..(next_seq - 1), each once
\* and in ascending order, leaves base and next_seq unchanged, handles no
\* received packet in that iteration, and returns to the loop: a timeout
\* never ends the transfer.
C14_TimeoutRetransmits ==
    [][ClientTimesOut =>
          /\ ev'.out = Outstanding(base, next_seq)
          /\ c2s' = SendAll(c2s, [k \in 1..Len(ev'.out) |-> FromClient(ev'.out[k])])
          /\ base' = base /\ next_seq' = next_seq
          /\ s2c' = s2c
          /\ c_pc' = "send"]_vars

\* server_handshake handles one received datagram
ServerShakes == s_pc = "handshake" /\ ev'.who = "server"

\* SYN-ACK(seq=0, ack, flags=SYN|ACK, window=15) as it is on the wire
SynAckBytes(ack) == <<0, 0, ack \div 256, ack % 256, 0, 6, 0, 15>>

\* C15: in server_handshake every received packet with the SYN bit set
\* (SYN|ACK and repeated SYNs too) is answered with SYN-ACK(seq=0,
\* ack=client_seq+1, flags=SYN|ACK, window=15) and the server keeps
\* listening; the first packet with ACK set and SYN clear completes the
\* handshake and returns its sender's address, whoever sent it and whether
\* or not a SYN came before; a packet with neither bit is ignored with no
\* reply and no state change.
C15_ServerHandshake ==
    [][ServerShakes =>
          \E i \in 1..Len(c2s) :
             LET d == c2s[i]
                 h == [seq   |-> d.data[1] * 256 + d.data[2],
                       flags |-> d.data[5] * 256 + d.data[6]]
                 syn == (h.flags \div 4) % 2 = 1
                 ack == (h.flags \div 2) % 2 = 1
             IN
             /\ ev'.pkt = d.data
             /\ c2s' = Remove(c2s, i)
             /\ syn => /\ ev'.out = <<SynAckBytes(h.seq + 1)>>
                       /\ \A k \in 1..8 : ev'.out[1][k] \in 0..255
                       /\ s2c' = ServerSendTo(d.src, ev'.out[1])
                       /\ s_pc' = "handshake"
                       /\ UNCHANGED <<addr, expected_seq, sink>>
             /\ (ack /\ ~syn) => /\ s_pc' = "receive"
                                 /\ addr' = d.src
                                 /\ ev'.out = <<>>
                                 /\ s2c' = s2c
             /\ (~ack /\ ~syn) => /\ ev'.out = <<>>
                                  /\ s2c' = s2c
                                  /\ UNCHANGED svars]_vars

\* the payloads of the packets numbered 1..n, joined in that order
RECURSIVE Joined(_)
Joined(n) == IF n = 0 THEN <<>> ELSE Joined(n - 1) \o packet_data(packets(n - 1))

\* the data packets of a send phase or of a retransmission
ClientSentData == ev.who = "client" /\ ev.op \in {"send", "rto"}

\* C16: a buffer of length L is split into N = ceil(L / max_data) packets
\* numbered 1..N with ack = 0, flags = 0, window = 0; every payload has 1 to
\* max_data bytes, all but possibly the last exactly max_data; the payloads
\* joined in sequence order are the buffer; what the client sends as data is
\* one of these packets; and for L = 0 no data packet is built or sent and
\* the transfer loop exits at once.
C16_Chunking ==
    LET L == Len(file_data)
        N == total_chunks
    IN
    /\ (N - 1) * max_data < L \/ (N = 0 /\ L = 0)
    /\ L <= N * max_data
    /\ \A n \in 1..N :
          LET p == packets(n - 1)
              h == parse_header(packet_header(p))
          IN
          /\ h = [seq |-> n, ack |-> 0, flags |-> 0, window |-> 0]
          /\ Len(packet_data(p)) \in 1..max_data
          /\ n < N => Len(packet_data(p)) = max_data
          /\ packet_data(p) = SubSeq(file_data, (n - 1) * max_data + 1,
                                     (n - 1) * max_data + Len(packet_data(p)))
    /\ Joined(N) = file_data
    /\ ClientSentData =>
          \A k \in 1..Len(ev.out) : \E n \in 1..N : ev.out[k] = packets(n - 1)
    /\ L = 0 =>
          /\ c_pc # "wait" /\ next_seq = 1 /\ base = 1
          /\ ~ClientSentData
          /\ \A k \in 1..Len(c2s) : IsData(c2s[k].data) => c2s[k].src # "client"

\* a file whose last chunk is short has been sent up to that chunk, and an
\* empty file has left the loop without a packet
C16_Witness ==
    /\ total_chunks >= 2
    /\ Len(file_data) % max_data # 0
    /\ ClientSentData
    /\ ev.out # <<>>
    /\ ev.out[Len(ev.out)] = packets(total_chunks - 1)
    /\ Len(packet_data(ev.out[Len(ev.out)])) < max_data

\* C17: over a network that may lose, delay or reorder packets but does not
\* duplicate, corrupt or forge them, the client sends FIN only after base has
\* passed N, and in every state where the client has sent FIN the receiver's
\* expected_seq is N + 1 and its sink is byte-identical to the source
\* buffer; so whenever server_receive_files ends because of a FIN its output
\* equals the input file.
C17_DeliveredBeforeTeardown ==
    /\ c_pc \in {"teardown", "fin_wait", "closed"} => base > total_chunks
    /\ sent.fin >= 1 =>
          /\ base > total_chunks
          /\ expected_seq = total_chunks + 1
          /\ sink = file_data
    /\ (ev.who = "server" /\ ev.op = "fin") =>
          /\ s_pc = "done"
          /\ sent.fin >= 1
          /\ sink = file_data

\* the server has ended on the client's FIN after a transfer of several
\* chunks in which the receiver discarded one, which was retransmitted
C17_Witness ==
    /\ ev.who = "server" /\ ev.op = "fin"
    /\ sent.fin = 1
    /\ total_chunks >= 2
    /\ discard_seq = 2
    /\ sink = file_data

\* C18: over a network that may lose, delay or reorder but not duplicate or
\* forge packets, in every reachable state the receiver's sink is the
\* chunks 1..expected_seq-1 joined in order, each written exactly once, and
\* the sender's base exceeds neither the receiver's expected_seq nor the
\* sender's own next_seq: the sender never regards a chunk as acknowledged
\* that the receiver has not written or that was never sent.
C18_Agreement ==
    /\ expected_seq \in 1..(total_chunks + 1)
    /\ sink = Joined(expected_seq - 1)
    /\ total_received = Len(sink)
    /\ acks = [k \in 1..(expected_seq - 1) |-> k]
    /\ base <= expected_seq
    /\ base <= next_seq

\* in mid-transfer the receiver has written two chunks, the sender has
\* learnt of the first only, and a third chunk is still to be written
C18_Witness ==
    /\ c_pc \in {"send", "wait"}
    /\ s_pc = "receive"
    /\ expected_seq = 3
    /\ base = 2
    /\ total_chunks >= 3
    /\ sink = Joined(2)

\* ------------------------------------------------- loss of ACKs only
\* an acknowledgement of server_receive_files: flags = ACK and nothing else
IsAck(packet) == extract_ok(packet) /\ extract_packet(packet).header.flags = ack_flag

\* the network loses an acknowledgement: MaxLoss of them in all
LoseAck ==
    /\ net.lost < MaxLoss
    /\ \E i \in 1..Len(s2c) : IsAck(s2c[i]) /\ s2c' = Remove(s2c, i)
    /\ net' = [net EXCEPT !.lost = @ + 1]
    /\ ev' = Event("net", "lose", <<>>, <<>>)
    /\ UNCHANGED <<cvars, svars, params, c2s, sent>>

\* FIFO network that loses acknowledgements only, finitely often; timers
\* expire only when nothing is in flight
NextAckLoss ==
    \/ ClientStepTimely
    \/ ServerStepFifo
    \/ LoseAck

InitAckLoss == InitWith(1..MaxLen, 1..MaxWin, {0}, FALSE, TRUE)

SpecAckLoss ==
    InitAckLoss /\ [][NextAckLoss]_vars
                /\ WF_vars(ClientStepTimely) /\ WF_vars(ServerStepFifo)

\* C19: over a network that loses only finitely many ACK packets and no
\* data packet, for every window W >= 1 and every N >= 1 client_send_file
\* eventually leaves its loop with base > N, also when the lost ACK is the
\* one for the last chunk, when W = 1, and when every ACK of a window is lost.
C19_AckLossRecovers ==
    (sender_window >= 1 /\ total_chunks >= 1)
        => <>(base > total_chunks /\ c_pc = "teardown")

\* --------------------------------------------- loss of the handshake ACK
\* the network loses the client's handshake ACK (seq = 2, flags = ACK),
\* which client_handshake sends once
LoseHandshakeAck ==
    /\ net.lost < MaxLoss
    /\ \E i \in 1..Len(c2s) :
          /\ c2s[i].src = "client"
          /\ IsAck(c2s[i].data)
          /\ c2s' = Remove(c2s, i)
    /\ net' = [net EXCEPT !.lost = @ + 1]
    /\ ev' = Event("net", "lose", <<>>, <<>>)
    /\ UNCHANGED <<cvars, svars, params, s2c, sent>>

\* FIFO network that may lose the handshake ACK and nothing else
NextHandshakeLoss ==
    \/ ClientStepTimely
    \/ ServerStepFifo
    \/ LoseHandshakeAck

InitHandshakeLoss == InitWith(1..MaxLen, 1..MaxWin, {0}, FALSE, TRUE)

SpecHandshakeLoss ==
    InitHandshakeLoss /\ [][NextHandshakeLoss]_vars
                      /\ WF_vars(ClientStepTimely) /\ WF_vars(ServerStepFifo)

\* C20: whenever client_handshake has returned a window and the client has
\* entered client_send_file, the server eventually returns from
\* server_handshake and enters server_receive_files, even if the client's
\* single handshake ACK was lost: the session does not stay for ever with
\* the client retransmitting data and the server in its handshake loop.
C20_HandshakeAgreement ==
    (c_pc \in {"send", "wait"}) ~> (s_pc # "handshake")

====
